---- MODULE Spec2Model ----
(***************************************************************************)
(* Student Project Portal (server.js): the HTTP handlers that create a     *)
(* project folder, place uploaded files, complete a submission in the      *)
(* Record Store, download a project and migrate legacy folders.            *)
(*                                                                         *)
(* Strings that the code inspects character by character (project names,   *)
(* uploaded file names, ISO timestamps) are sequences of one-character     *)
(* strings; Str turns such a sequence into a string.  A path is a sequence *)
(* of components: path.join(projectPath, a, b) is <<projectPath, a, b>>.   *)
(***************************************************************************)
EXTENDS Integers, Sequences, FiniteSets, TLC

VARIABLES
    projects,   \* Record Store: the in-memory collection, in insertion order
    dbFile,     \* Record Store: the collection as last persisted to projects.json
    disk,       \* the filesystem: a function from the existing paths to their content
    uuidCount,  \* how many uuids uuidv4() has handed out
    clock,      \* the current time (Date.now), in abstract ticks
    cr,         \* POST /api/create-project: the request being served
    up,         \* the upload endpoints: the request being served
    cp,         \* POST /api/complete-project: one slot per request in flight
    mig,        \* POST /api/update-existing-folders: the request being served
    dl          \* GET /api/download-project: the request being served

vars == <<projects, dbFile, disk, uuidCount, clock, cr, up, cp, mig, dl>>

(***************************************************************************)
(* Values                                                                  *)
(*                                                                         *)
(* A request body is a record that holds only the fields the client sent:  *)
(* a missing field is a field outside its DOMAIN.  Every slot keeps the    *)
(* answer given to its request in res; NoAnswer while it is unanswered.    *)
(***************************************************************************)
Has(body, f) == f \in DOMAIN body

\* !body.f is false, for a field that holds a string (absent and '' are falsy)
Truthy(body, f) == Has(body, f) /\ body[f] # ""

\* name || fallback, for strings
OrStr(s, fallback) == IF s = "" THEN fallback ELSE s

\* the fields D of a record
Restrict(r, D) == [f \in (DOMAIN r) \cap D |-> r[f]]

NoAnswer == [status |-> 0]

\* what reading a missing field gives
Undefined == "undefined"

Min(a, b) == IF a < b THEN a ELSE b

RECURSIVE Str(_)
\* the string spelled by a sequence of characters
Str(cs) == IF cs = <<>> THEN "" ELSE Head(cs) \o Str(Tail(cs))

\* the sequences over S of length at most n
SeqsUpTo(S, n) == UNION {[1..k -> S] : k \in 0..n}

(***************************************************************************)
(* Folder Naming Utility: generateFolderName, server.js 45-59              *)
(***************************************************************************)
\* the characters of /[<>:"/\\|?*]/
ForbiddenChars == {"<", ">", ":", "\"", "/", "\\", "|", "?", "*"}

\* characters matched by \s (a sample of them)
WhitespaceChars == {" ", "\t", "\n"}

\* .substring(0, 50)
NAME_LIMIT == 50

\* .slice(0, 19)
STAMP_LEN == 19

Digit(n) == <<"0", "1", "2", "3", "4", "5", "6", "7", "8", "9">>[n + 1]

RECURSIVE Pad(_, _)
\* n in decimal, w digits wide, zero padded
Pad(n, w) == IF w = 0 THEN <<>> ELSE Pad(n \div 10, w - 1) \o <<Digit(n % 10)>>

\* Date.prototype.toISOString: YYYY-MM-DDTHH:mm:ss.sssZ
toISOString(d) ==
    Pad(d.y, 4) \o <<"-">> \o Pad(d.mo, 2) \o <<"-">> \o Pad(d.d, 2) \o <<"T">>
    \o Pad(d.h, 2) \o <<":">> \o Pad(d.mi, 2) \o <<":">> \o Pad(d.s, 2)
    \o <<".">> \o Pad(d.ms, 3) \o <<"Z">>

\* s.replace(/[...]/g, c): every character of S becomes c
ReplaceAll(cs, S, c) == [i \in 1..Len(cs) |-> IF cs[i] \in S THEN c ELSE cs[i]]

RECURSIVE ReplaceFirst(_, _, _)
\* s.replace('T', '_'): a string pattern replaces the first occurrence only
ReplaceFirst(cs, a, b) ==
    IF cs = <<>> THEN <<>>
    ELSE IF Head(cs) = a THEN <<b>> \o Tail(cs)
    ELSE <<Head(cs)>> \o ReplaceFirst(Tail(cs), a, b)

RECURSIVE ReplaceRuns(_, _, _)
\* s.replace(/\s+/g, c): every maximal run of characters of S becomes one c
ReplaceRuns(cs, S, c) ==
    IF cs = <<>> THEN <<>>
    ELSE IF Head(cs) \in S
         THEN IF Len(cs) > 1 /\ cs[2] \in S
              THEN ReplaceRuns(Tail(cs), S, c)
              ELSE <<c>> \o ReplaceRuns(Tail(cs), S, c)
         ELSE <<Head(cs)>> \o ReplaceRuns(Tail(cs), S, c)

\* s.substring(0, n) and s.slice(0, n), for n >= 0
Substring(cs, n) == SubSeq(cs, 1, Min(n, Len(cs)))

\* lines 47-50
Timestamp(now) ==
    Substring(ReplaceFirst(ReplaceAll(toISOString(now), {":", "."}, "-"), "T", "_"),
              STAMP_LEN)

\* the cleaning without its first replace
CleanNoForbidden(projectName) ==
    Substring(ReplaceRuns(projectName, WhitespaceChars, "_"), NAME_LIMIT)

\* lines 53-56
CleanProjectName(projectName) ==
    Substring(ReplaceRuns(ReplaceAll(projectName, ForbiddenChars, "_"),
                          WhitespaceChars, "_"),
              NAME_LIMIT)

\* line 58
generateFolderName(projectName, now) ==
    CleanProjectName(projectName) \o <<"_">> \o Timestamp(now)

(***************************************************************************)
(* The filesystem (fs-extra).  disk maps every existing path to its        *)
(* content; a directory's content is Dir, or Locked when the server may    *)
(* not change its entries (EACCES).                                        *)
(***************************************************************************)
Dir == [kind |-> "dir"]

Locked == [kind |-> "locked"]

File(data, size) == [kind |-> "file", data |-> data, size |-> size]

\* path.join(projectPath, a, ...)
Join(projectPath, parts) == <<projectPath>> \o parts

\* fs.existsSync
existsSync(d, p) == p \in DOMAIN d

IsPrefix(q, p) == Len(q) <= Len(p) /\ SubSeq(p, 1, Len(q)) = q

Parent(p) == SubSeq(p, 1, Len(p) - 1)

\* the last component of a path (path.basename)
Basename(p) == p[Len(p)]

\* fs.ensureDir: the directory and its missing ancestors are created
ensureDir(d, p) ==
    [q \in DOMAIN d \cup {SubSeq(p, 1, k) : k \in 1..Len(p)} |->
        IF q \in DOMAIN d THEN d[q] ELSE Dir]

\* the entries of p's folder can be changed
Writable(d, p) == Parent(p) \in DOMAIN d /\ d[Parent(p)] = Dir

\* fs.writeFile / fs.writeJson can write p: its folder exists and p is no directory
CanWrite(d, p) ==
    /\ Writable(d, p)
    /\ (p \in DOMAIN d => d[p].kind = "file")

\* fs.remove can remove p
CanRemove(d, p) == Writable(d, p)

\* fs.writeFile / fs.writeJson: the file is created or replaced
writeFile(d, p, content) ==
    [q \in DOMAIN d \cup {p} |-> IF q = p THEN content ELSE d[q]]

\* fs.remove: the path and everything below it
remove(d, p) == [q \in {x \in DOMAIN d : ~IsPrefix(p, x)} |-> d[q]]

\* fs.move can move src to dst: src exists, dst is free unless overwrite, and
\* both folders take the change
CanMove(d, src, dst, overwrite) ==
    /\ src \in DOMAIN d
    /\ (overwrite \/ dst \notin DOMAIN d)
    /\ Writable(d, src)
    /\ (Parent(dst) \in DOMAIN d => d[Parent(dst)] = Dir)

\* fs.move: src and everything below it now lives at dst, whose folder is
\* created when missing; whatever was at dst is gone
move(d, src, dst) ==
    LET kept   == ensureDir(remove(remove(d, src), dst), Parent(dst))
        moved  == {x \in DOMAIN d : IsPrefix(src, x)}
        To(x)  == dst \o SubSeq(x, Len(src) + 1, Len(x))
        From(y) == src \o SubSeq(y, Len(dst) + 1, Len(y))
    IN  [q \in DOMAIN kept \cup {To(x) : x \in moved} |->
            IF IsPrefix(dst, q) /\ From(q) \in moved THEN d[From(q)] ELSE kept[q]]

(***************************************************************************)
(* The clock: milliseconds since midnight of one day                       *)
(***************************************************************************)
\* new Date()
DateOf(t) ==
    [y |-> 2025, mo |-> 11, d |-> 3,
     h |-> (t \div 3600000) % 24, mi |-> (t \div 60000) % 60,
     s |-> (t \div 1000) % 60, ms |-> t % 1000]

\* new Date().toISOString()
NowIso(t) == Str(toISOString(DateOf(t)))

(***************************************************************************)
(* student-info.txt: the text built from the team list (lines 123-127,     *)
(* 319-323, 554-558) and its length in characters                          *)
(***************************************************************************)
StudentInfoHeader(projectName, teamMembers, t) ==
    [title |-> "STUDENT INFORMATION", project |-> projectName,
     date |-> t, members |-> teamMembers]

\* studentInfoHeader.length: the fixed text plus each member's lines
HeaderLength(projectName, teamMembers) ==
    60 + Len(projectName) + 25 * Len(teamMembers)

StudentInfoFile(projectName, teamMembers, t) ==
    File(StudentInfoHeader(projectName, teamMembers, t),
         HeaderLength(projectName, teamMembers))

(***************************************************************************)
(* POST /api/create-project, server.js 103-149, with createProjectStructure*)
(* (62-72).  failAt names the awaited filesystem call that throws, 0 when  *)
(* none does.                                                              *)
(***************************************************************************)
CreateProject(failAt) ==
    /\ cr.pc = "received"
    /\ LET body == cr.body IN
       IF ~(Has(body, "projectName") /\ body.projectName # <<>>) \/ ~Truthy(body, "savePath")
       THEN /\ failAt = 0
            /\ cr' = [cr EXCEPT !.pc = "done",
                        !.res = [status |-> 400, success |-> FALSE]]
            /\ UNCHANGED disk
       ELSE LET folderName  == generateFolderName(body.projectName, DateOf(clock))
                projectPath == body.savePath \o "/" \o Str(folderName)
                hasTeam     == Has(body, "teamMembers") /\ Len(body.teamMembers) > 0
                d1 == ensureDir(disk, <<body.savePath>>)
                d2 == ensureDir(d1, Join(projectPath, <<"1.INSTALLATION">>))
                d3 == ensureDir(d2, Join(projectPath, <<"2.README">>))
                d4 == ensureDir(d3, Join(projectPath, <<"3.SOURCE">>))
                d5 == IF hasTeam
                      THEN writeFile(d4, Join(projectPath, <<"student-info.txt">>),
                              StudentInfoFile(Str(body.projectName), body.teamMembers, clock))
                      ELSE d4
                ds == <<disk, d1, d2, d3, d4, d5>>
            IN  /\ failAt = 5 => hasTeam
                /\ IF failAt = 0
                   THEN /\ disk' = d5
                        /\ cr' = [cr EXCEPT !.pc = "done",
                                   !.res = [status |-> 200, success |-> TRUE,
                                            projectPath |-> projectPath,
                                            folderName |-> folderName,
                                            savePath |-> body.savePath,
                                            studentInfoPath |->
                                                IF hasTeam
                                                THEN Join(projectPath, <<"student-info.txt">>)
                                                ELSE <<>>]]
                   ELSE /\ disk' = ds[failAt]
                        /\ cr' = [cr EXCEPT !.pc = "done",
                                   !.res = [status |-> 500, success |-> FALSE]]
    /\ UNCHANGED <<projects, dbFile, uuidCount, clock, up, cp, mig, dl>>

(***************************************************************************)
(* Record Store (database.js, DatabaseService): create appends, update     *)
(* replaces by id, and every change is written to projects.json.           *)
(***************************************************************************)
\* uuidv4(): the n-th identifier handed out
Uuid(n) == "uuid-" \o Str(Pad(n, 2))

\* Array.prototype.find / findIndex: the first index that satisfies Test, 0 when none
FirstIndex(ps, Test(_)) ==
    IF \E i \in 1..Len(ps) : Test(ps[i])
    THEN CHOOSE i \in 1..Len(ps) : Test(ps[i]) /\ \A j \in 1..(i - 1) : ~Test(ps[j])
    ELSE 0

getAllProjects == projects

\* the index of the record getProjectById(id) returns, 0 when there is none
IndexById(ps, id) == LET Same(p) == p.id = id IN FirstIndex(ps, Same)

\* createProject(record): appended to the collection
createProject(ps, record) == Append(ps, record)

\* updateProject(id, patch): the record with that id is replaced in place, the
\* patch's fields overwriting its own; nothing happens when there is none
updateProject(ps, id, patch) ==
    LET i == IndexById(ps, id)
    IN  IF i = 0 THEN ps ELSE [ps EXCEPT ![i] = patch @@ ps[i]]

(***************************************************************************)
(* POST /api/complete-project, server.js 243-349.  The handler runs from   *)
(* one await to the next in one step:                                      *)
(*   CompleteStart   245-314  validation, the record, the store writes     *)
(*   CompleteStat    315-338  await fs.stat answered                       *)
(*   CompleteWrite   325-338  await fs.writeFile answered                  *)
(*   CompleteJson    338-344  await fs.writeJson answered, the answer      *)
(* A filesystem call fails when the disk says so (no folder to write in,   *)
(* no file to stat); the catch of 345-348 answers 500.                     *)
(***************************************************************************)
Req == {1, 2}

IdleCp == [pc |-> "idle", body |-> <<>>, projectData |-> <<>>, header |-> <<>>,
           branch |-> "none", existingProject |-> <<>>, res |-> NoAnswer]

\* lines 270-286: the file metadata of the record
FilesOf(body) ==
    [readme |->
        [name |-> OrStr(body.readmeFile.name, "ReadMe.txt"),
         path |-> Join(body.projectPath,
                       <<"2.README", OrStr(body.readmeFile.name, "ReadMe.txt")>>),
         size |-> body.readmeFile.size],
     installation |->
        [name |-> OrStr(body.installationFile.name, "installation.txt"),
         path |-> Join(body.projectPath,
                       <<"1.INSTALLATION",
                         OrStr(body.installationFile.name, "installation.txt")>>),
         size |-> body.installationFile.size],
     source |->
        [name |-> "project.zip",
         path |-> Join(body.projectPath, <<"3.SOURCE", "project.zip">>),
         size |-> body.sourceFile.size]]

\* lines 260-287
NewProjectData(body, id, t) ==
    [id |-> id,
     projectName |-> body.projectName,
     timestamp |-> NowIso(t),
     teamMembers |-> [i \in 1..Len(body.teamMembers) |->
                        Restrict(body.teamMembers[i], {"name", "usn"})],
     folderName |-> body.folderName,
     projectPath |-> body.projectPath,
     files |-> FilesOf(body)]

\* a lookup that finds no record
NoExisting(ps, projectName, projectPath) == 0

\* lines 290-293: the index of existingProject, 0 when there is none
ExistingIndex(ps, projectName, projectPath) ==
    LET Match(p) == p.projectName = projectName /\ p.projectPath = projectPath
    IN  FirstIndex(ps, Match)

\* the record with the identifier and time of this request
UpsertedFresh(ps, data) == data

\* lines 295-299: the record as stored, with the existing record's id and timestamp
Upserted(ps, data) ==
    LET i == ExistingIndex(ps, data.projectName, data.projectPath)
    IN  IF i = 0 THEN data
        ELSE [data EXCEPT !.id = ps[i].id, !.timestamp = ps[i].timestamp]

\* lines 295-305: the store after the branch taken
AfterBranch(ps, stored) ==
    IF ExistingIndex(ps, stored.projectName, stored.projectPath) # 0
    THEN updateProject(ps, stored.id, stored)
    ELSE createProject(ps, stored)

\* lines 295-308: the branch, then "Save to database"
AfterStoreWrites(ps, stored) == createProject(AfterBranch(ps, stored), stored)

StudentInfoPath(projectPath) == Join(projectPath, <<"student-info.txt">>)

InfoPath(projectPath) == Join(projectPath, <<"project-info.json">>)

\* the check without the team list
MissingRequiredNoTeam(body) ==
    ~Truthy(body, "projectName") \/ ~Truthy(body, "projectPath")

\* line 255
MissingRequired(body) ==
    ~Truthy(body, "projectName") \/ ~Has(body, "teamMembers")
    \/ ~Truthy(body, "projectPath")

CompleteStart(r, body) ==
    /\ cp[r].pc \in {"idle", "done"}
    /\ IF MissingRequired(body)
       THEN \* lines 255-257
            /\ cp' = [cp EXCEPT ![r] = [IdleCp EXCEPT !.pc = "done", !.body = body,
                        !.res = [status |-> 400, success |-> FALSE]]]
            /\ UNCHANGED <<projects, dbFile, uuidCount>>
       ELSE IF ~Has(body, "teamMembers") \/ ~Has(body, "readmeFile")
               \/ ~Has(body, "installationFile") \/ ~Has(body, "sourceFile")
       THEN \* line 261 has run, lines 264-284 throw a TypeError
            /\ uuidCount' = uuidCount + 1
            /\ cp' = [cp EXCEPT ![r] = [IdleCp EXCEPT !.pc = "done", !.body = body,
                        !.res = [status |-> 500, success |-> FALSE]]]
            /\ UNCHANGED <<projects, dbFile>>
       ELSE LET data   == NewProjectData(body, Uuid(uuidCount + 1), clock)
                stored == Upserted(projects, data)
                branch == IF ExistingIndex(projects, body.projectName, body.projectPath) # 0
                          THEN "update" ELSE "create"
            IN  /\ uuidCount' = uuidCount + 1
                /\ projects' = AfterStoreWrites(projects, stored)
                /\ dbFile' = AfterStoreWrites(projects, stored)
                /\ cp' = [cp EXCEPT ![r] =
                      [pc |-> IF existsSync(disk, StudentInfoPath(body.projectPath))
                              THEN "stat" ELSE "write",
                       body |-> body,
                       projectData |-> stored,
                       header |-> StudentInfoFile(body.projectName,
                                                  body.teamMembers, clock),
                       branch |-> branch,
                       existingProject |->
                          IF branch = "update"
                          THEN projects[ExistingIndex(projects, body.projectName,
                                                      body.projectPath)]
                          ELSE <<>>,
                       res |-> NoAnswer]]
    /\ UNCHANGED <<disk, clock, cr, up, mig, dl>>

\* lines 330-334: projectData.files.studentInfo = {...}
WithStudentInfo(data, size) ==
    [data EXCEPT !.files =
        ("studentInfo" :> [name |-> "student-info.txt",
                           path |-> StudentInfoPath(data.projectPath),
                           size |-> size]) @@ data.files]

Fail500(r) ==
    cp' = [cp EXCEPT ![r].pc = "done", ![r].res = [status |-> 500, success |-> FALSE]]

\* lines 315-316, then 330-338 up to the next await
CompleteStat(r) ==
    /\ cp[r].pc = "stat"
    /\ LET p == StudentInfoPath(cp[r].body.projectPath) IN
       IF existsSync(disk, p)
       THEN cp' = [cp EXCEPT ![r].pc = "json",
                     ![r].projectData =
                        WithStudentInfo(@, IF disk[p].kind = "file" THEN disk[p].size ELSE 0)]
       ELSE Fail500(r)
    /\ UNCHANGED <<projects, dbFile, disk, uuidCount, clock, cr, up, mig, dl>>

\* lines 325-326, then 330-338 up to the next await
CompleteWrite(r) ==
    /\ cp[r].pc = "write"
    /\ LET p == StudentInfoPath(cp[r].body.projectPath) IN
       IF CanWrite(disk, p)
       THEN /\ disk' = writeFile(disk, p, cp[r].header)
            /\ cp' = [cp EXCEPT ![r].pc = "json",
                        ![r].projectData = WithStudentInfo(@, cp[r].header.size)]
       ELSE /\ Fail500(r)
            /\ UNCHANGED disk
    /\ UNCHANGED <<projects, dbFile, uuidCount, clock, cr, up, mig, dl>>

\* line 338 answered, lines 340-344
CompleteJson(r) ==
    /\ cp[r].pc = "json"
    /\ LET p == InfoPath(cp[r].body.projectPath) IN
       IF CanWrite(disk, p)
       THEN /\ disk' = writeFile(disk, p, File(cp[r].projectData, 0))
            /\ cp' = [cp EXCEPT ![r].pc = "done",
                        ![r].res = [status |-> 200, success |-> TRUE,
                                    projectData |-> cp[r].projectData]]
       ELSE /\ Fail500(r)
            /\ UNCHANGED disk
    /\ UNCHANGED <<projects, dbFile, uuidCount, clock, cr, up, mig, dl>>

(***************************************************************************)
(* GET /api/download-project/:projectId, server.js 465-499                 *)
(***************************************************************************)
\* line 467: const projectId = req.params.id
RequestedId(params) == IF Has(params, "id") THEN params.id ELSE Undefined

\* everything at or below the folder
Tree(d, folder) == {x \in DOMAIN d : IsPrefix(folder, x)}

DownloadProject(urlId) ==
    /\ LET params    == [projectId |-> urlId]
           projectId == RequestedId(params)
           i         == IndexById(projects, projectId)
       IN  dl' = [params |-> params,
                  res |->
                    IF i = 0
                    THEN [status |-> 404, success |-> FALSE, error |-> "Project not found"]
                    ELSE IF ~existsSync(disk, <<projects[i].projectPath>>)
                    THEN [status |-> 404, success |-> FALSE,
                          error |-> "Project folder not found"]
                    ELSE [status |-> 200,
                          attachment |-> projects[i].folderName \o ".zip",
                          id |-> projects[i].id,
                          entries |-> Tree(disk, <<projects[i].projectPath>>)]]
    /\ UNCHANGED <<projects, dbFile, disk, uuidCount, clock, cr, up, cp, mig>>

(***************************************************************************)
(* The upload endpoints, server.js 152-240, behind multer (25-42).         *)
(*   UploadReceive  multer stages the file, then the handler runs to its   *)
(*                  await fs.move (or answers 400)                         *)
(*   UploadMove     await fs.move answered, the answer                     *)
(***************************************************************************)
\* path.join(__dirname, 'uploads', 'temp')
TempDir == <<"uploads", "temp">>

\* path.extname's scan of one character, from the end of the name (node, posix)
ExtStep(st, c, i) ==
    IF st.stop THEN st
    ELSE IF c = "/"
    THEN IF ~st.matchedSlash THEN [st EXCEPT !.startPart = i + 1, !.stop = TRUE] ELSE st
    ELSE LET s1 == IF st.end = -1 THEN [st EXCEPT !.matchedSlash = FALSE, !.end = i + 1]
                   ELSE st
         IN  IF c = "."
             THEN IF s1.startDot = -1 THEN [s1 EXCEPT !.startDot = i]
                  ELSE IF s1.preDotState # 1 THEN [s1 EXCEPT !.preDotState = 1]
                  ELSE s1
             ELSE IF s1.startDot # -1 THEN [s1 EXCEPT !.preDotState = -1]
             ELSE s1

RECURSIVE ExtScan(_, _, _)
ExtScan(cs, i, st) == IF i < 0 THEN st ELSE ExtScan(cs, i - 1, ExtStep(st, cs[i + 1], i))

\* path.extname(originalname): from the last '.' of the last component to its end;
\* empty when there is no '.', or the component starts with its only '.'
extname(cs) ==
    LET st == ExtScan(cs, Len(cs) - 1,
                      [startDot |-> -1, startPart |-> 0, end |-> -1,
                       matchedSlash |-> TRUE, preDotState |-> 0, stop |-> FALSE])
    IN  IF \/ st.startDot = -1
           \/ st.end = -1
           \/ st.preDotState = 0
           \/ (st.preDotState = 1 /\ st.startDot = st.end - 1
                                  /\ st.startDot = st.startPart + 1)
        THEN <<>>
        ELSE SubSeq(cs, st.startDot + 1, st.end)

\* the upload keeps the name it came with
TargetNameOriginal(kind, originalname) == Str(originalname)

\* lines 164-165, 196-197, 227: the fixed target name of an upload
TargetName(kind, originalname) ==
    LET ext == Str(extname(originalname))
    IN  CASE kind = "readme"       -> IF ext # "" THEN "ReadMe" \o ext ELSE "ReadMe.txt"
          [] kind = "installation" -> "installation" \o ext
          [] kind = "source"       -> "project.zip"

TargetDir(kind) ==
    CASE kind = "readme"       -> "2.README"
      [] kind = "installation" -> "1.INSTALLATION"
      [] kind = "source"       -> "3.SOURCE"

\* lines 166, 197, 227
TargetPath(kind, projectPath, originalname) ==
    Join(projectPath, <<TargetDir(kind), TargetName(kind, originalname)>>)

\* lines 31-34: fieldname-uniqueSuffix<ext>
TempName(kind, n, originalname) ==
    kind \o "-" \o Str(Pad(n, 2)) \o Str(extname(originalname))

\* lines 25-35: multer writes the request's file into the temporary directory
Staged(d, kind, file, n) ==
    writeFile(ensureDir(d, TempDir),
              TempDir \o <<TempName(kind, n, file.originalname)>>,
              File(file.data, file.size))

IdleUp == [pc |-> "idle", kind |-> "none", hasFile |-> FALSE, file |-> <<>>,
           body |-> <<>>, count |-> 0, res |-> NoAnswer]

\* the check of the project path left out
RejectedNoFileOnly(req) == ~Has(req, "file")

\* lines 154-161, 186-193, 217-224: the request is answered 400
Rejected(req) == ~Has(req, "file") \/ ~Truthy(req.body, "projectPath")

\* req = [body, file]: file = [originalname, data, size] is missing from a
\* request that carries no file part
UploadReceive(kind, req) ==
    /\ up.pc \in {"idle", "done"}
    /\ IF ~Has(req, "file")
       THEN \* lines 154-156
            /\ up' = [up EXCEPT !.pc = "done", !.kind = kind, !.hasFile = FALSE,
                        !.file = <<>>, !.body = req.body,
                        !.res = [status |-> 400, success |-> FALSE,
                                 error |-> "No file uploaded"]]
            /\ UNCHANGED disk
       ELSE /\ disk' = Staged(disk, kind, req.file, up.count + 1)
            /\ LET staged == [originalname |-> req.file.originalname,
                              data |-> req.file.data,
                              size |-> req.file.size,
                              path |-> TempDir \o <<TempName(kind, up.count + 1,
                                                             req.file.originalname)>>]
               IN  IF Rejected(req)
                   THEN \* lines 158-161
                        up' = [up EXCEPT !.pc = "done", !.kind = kind, !.hasFile = TRUE,
                                 !.file = staged, !.body = req.body, !.count = @ + 1,
                                 !.res = [status |-> 400, success |-> FALSE,
                                          error |-> "Project path is required"]]
                   ELSE up' = [up EXCEPT !.pc = "move", !.kind = kind, !.hasFile = TRUE,
                                 !.file = staged, !.body = req.body, !.count = @ + 1,
                                 !.res = NoAnswer]
    /\ UNCHANGED <<projects, dbFile, uuidCount, clock, cr, cp, mig, dl>>

\* lines 169-176, 200-207, 228-235 and the catch blocks
UploadMove(ok) ==
    /\ up.pc = "move"
    /\ LET target == TargetPath(up.kind,
                             IF Has(up.body, "projectPath") THEN up.body.projectPath
                             ELSE Undefined,
                             up.file.originalname)
       IN
       \* path.join throws on an undefined projectPath
       IF ok /\ Has(up.body, "projectPath") /\ CanMove(disk, up.file.path, target, TRUE)
       THEN /\ disk' = move(disk, up.file.path, target)
            /\ up' = [up EXCEPT !.pc = "done",
                        !.res = [status |-> 200, success |-> TRUE,
                                 path |-> target,
                                 fileName |-> TargetName(up.kind, up.file.originalname),
                                 fileSize |-> up.file.size]]
       ELSE /\ up' = [up EXCEPT !.pc = "done",
                        !.res = [status |-> 500, success |-> FALSE, error |-> "move"]]
            /\ UNCHANGED disk
    /\ UNCHANGED <<projects, dbFile, uuidCount, clock, cr, cp, mig, dl>>

(***************************************************************************)
(* POST /api/update-existing-folders, server.js 513-609.  One step per     *)
(* stage of the loop body; a stage whose condition holds awaits its        *)
(* filesystem call, and a call the disk refuses throws into the catch of   *)
(* 595-597.  updateProject throws when projects.json cannot be rewritten   *)
(* (storeOk = FALSE), after changing the in-memory collection.             *)
(*   MigStart       515-516                                                *)
(*   MigHead        518-523, or 600-604 after the last record              *)
(*   MigMoveDir     526-545, one old folder per step                       *)
(*   MigInfo        552-560                                                *)
(*   MigRemove      563-570, one deprecated file per step, then 573-587    *)
(*   MigUpdate      590-593                                                *)
(* calls, returned, errors and visited are history: the updateProject      *)
(* calls made, those that returned, the errors caught, the records whose   *)
(* turn in the loop has come; run counts the requests, prevErrors is the   *)
(* errors of the request before, and disk0, projects0, dbFile0 are the     *)
(* disk and the store as the request found them.                           *)
(***************************************************************************)
IdleMig == [pc |-> "idle", list |-> <<>>, i |-> 0, updatedProject |-> <<>>,
            needsUpdate |-> FALSE, updatedCount |-> 0, header |-> <<>>,
            calls |-> 0, returned |-> 0, errors |-> 0, visited |-> {},
            run |-> 0, prevErrors |-> 0, disk0 |-> <<>>, projects0 |-> <<>>,
            dbFile0 |-> <<>>, res |-> NoAnswer]

MigStart ==
    /\ mig.pc \in {"idle", "done"}
    /\ mig' = [IdleMig EXCEPT !.pc = "head", !.list = getAllProjects, !.i = 1,
                 !.run = mig.run + 1, !.prevErrors = mig.errors,
                 !.disk0 = disk, !.projects0 = projects, !.dbFile0 = dbFile]
    /\ UNCHANGED <<projects, dbFile, disk, uuidCount, clock, cr, up, cp, dl>>

\* an error that ends the loop and the request
CaughtOutside(m) ==
    [m EXCEPT !.pc = "done", !.errors = @ + 1,
              !.res = [status |-> 500, success |-> FALSE]]

\* the catch of lines 595-597: on to the next record
Caught(m) == [m EXCEPT !.pc = "head", !.i = @ + 1, !.errors = @ + 1]

MigHead ==
    /\ mig.pc = "head"
    /\ IF mig.i > Len(mig.list)
       THEN mig' = [mig EXCEPT !.pc = "done",
                      !.res = [status |-> 200, success |-> TRUE,
                               updatedCount |-> mig.updatedCount]]
       ELSE LET project == mig.list[mig.i] IN
            IF existsSync(disk, <<project.projectPath>>)
            THEN mig' = [mig EXCEPT !.pc = "README", !.updatedProject = project,
                           !.needsUpdate = FALSE, !.visited = @ \cup {mig.i}]
            ELSE mig' = [mig EXCEPT !.i = @ + 1, !.visited = @ \cup {mig.i}]
    /\ UNCHANGED <<projects, dbFile, disk, uuidCount, clock, cr, up, cp, dl>>

\* the stage after each folder stage
AfterDir(old) ==
    CASE old = "README"       -> "INSTALLATION"
      [] old = "INSTALLATION" -> "SOURCE"
      [] old = "SOURCE"       -> "info"

\* the numbered folder that replaces an old one
Numbered(old) ==
    CASE old = "README"       -> "2.README"
      [] old = "INSTALLATION" -> "1.INSTALLATION"
      [] old = "SOURCE"       -> "3.SOURCE"

\* lines 528, 535, 542
DirNeedsMove(d, projectPath, old) ==
    /\ existsSync(d, Join(projectPath, <<old>>))
    /\ ~existsSync(d, Join(projectPath, <<Numbered(old)>>))

MigMoveDir(old) ==
    /\ mig.pc = old
    /\ old \in {"README", "INSTALLATION", "SOURCE"}
    /\ LET projectPath == mig.list[mig.i].projectPath
           src == Join(projectPath, <<old>>)
           dst == Join(projectPath, <<Numbered(old)>>)
       IN  IF DirNeedsMove(disk, projectPath, old)
           THEN IF CanMove(disk, src, dst, FALSE)
                THEN /\ disk' = move(disk, src, dst)
                     /\ mig' = [mig EXCEPT !.pc = AfterDir(old), !.needsUpdate = TRUE]
                ELSE /\ mig' = Caught(mig)
                     /\ UNCHANGED disk
           ELSE /\ mig' = [mig EXCEPT !.pc = AfterDir(old)]
                /\ UNCHANGED disk
    /\ UNCHANGED <<projects, dbFile, uuidCount, clock, cr, up, cp, dl>>

\* the team list alone decides
InfoNeededAlways(d, project) ==
    Has(project, "teamMembers") /\ Len(project.teamMembers) > 0

\* line 552
InfoNeeded(d, project) ==
    /\ ~existsSync(d, StudentInfoPath(project.projectPath))
    /\ Has(project, "teamMembers")
    /\ Len(project.teamMembers) > 0

MigInfo ==
    /\ mig.pc = "info"
    /\ LET project == mig.list[mig.i]
           p       == StudentInfoPath(project.projectPath)
       IN  IF InfoNeeded(disk, project)
           THEN LET header == StudentInfoFile(project.projectName,
                                              project.teamMembers, clock)
                IN  IF CanWrite(disk, p)
                    THEN /\ disk' = writeFile(disk, p, header)
                         /\ mig' = [mig EXCEPT !.pc = "team-members.txt",
                                      !.header = header]
                    ELSE /\ mig' = Caught(mig)
                         /\ UNCHANGED disk
           ELSE /\ mig' = [mig EXCEPT !.pc = "update"]
                /\ UNCHANGED disk
    /\ UNCHANGED <<projects, dbFile, uuidCount, clock, cr, up, cp, dl>>

\* lines 573-585: the record with its studentInfo entry, without its teamMembers entry
WithMigratedInfo(updatedProject, path, size) ==
    LET files == ("studentInfo" :> [name |-> "student-info.txt", path |-> path,
                                    size |-> size]) @@ updatedProject.files
    IN  [updatedProject EXCEPT !.files = Restrict(files, DOMAIN files \ {"teamMembers"})]

MigRemove(name) ==
    /\ mig.pc = name
    /\ name \in {"team-members.txt", "4.Student-info.txt"}
    /\ LET project == mig.list[mig.i]
           p       == Join(project.projectPath, <<name>>)
           next    ==
             IF name = "team-members.txt"
             THEN [mig EXCEPT !.pc = "4.Student-info.txt"]
             ELSE [mig EXCEPT !.pc = "update", !.needsUpdate = TRUE,
                     !.updatedProject =
                        WithMigratedInfo(@, StudentInfoPath(project.projectPath),
                                         mig.header.size)]
       IN  IF existsSync(disk, p)
           THEN IF CanRemove(disk, p)
                THEN /\ disk' = remove(disk, p)
                     /\ mig' = next
                ELSE /\ mig' = Caught(mig)
                     /\ UNCHANGED disk
           ELSE /\ mig' = next
                /\ UNCHANGED disk
    /\ UNCHANGED <<projects, dbFile, uuidCount, clock, cr, up, cp, dl>>

\* line 592
Counted(m) == [m EXCEPT !.updatedCount = @ + 1]

MigUpdate(storeOk) ==
    /\ mig.pc = "update"
    /\ IF mig.needsUpdate
       THEN LET ps == updateProject(projects, mig.list[mig.i].id, mig.updatedProject)
                m  == [mig EXCEPT !.calls = @ + 1]
            IN  /\ projects' = ps
                /\ IF storeOk
                   THEN /\ dbFile' = ps
                        /\ mig' = [Counted(m) EXCEPT !.pc = "head", !.i = @ + 1,
                                     !.returned = @ + 1]
                   ELSE /\ UNCHANGED dbFile
                        /\ mig' = Caught(m)
       ELSE /\ storeOk
            /\ mig' = [mig EXCEPT !.pc = "head", !.i = @ + 1]
            /\ UNCHANGED <<projects, dbFile>>
    /\ UNCHANGED <<disk, uuidCount, clock, cr, up, cp, dl>>

(***************************************************************************)
(* Requests                                                                *)
(***************************************************************************)
IdleCr == [pc |-> "idle", body |-> <<>>, res |-> NoAnswer]

IdleDl == [params |-> <<>>, res |-> NoAnswer]

\* the folder create-project makes (lines 67-69), with student-info.txt or without
NewFolder(d, projectPath, projectName, teamMembers) ==
    LET d3 == ensureDir(ensureDir(ensureDir(d,
                  Join(projectPath, <<"1.INSTALLATION">>)),
                  Join(projectPath, <<"2.README">>)),
                  Join(projectPath, <<"3.SOURCE">>))
    IN  IF Len(teamMembers) > 0
        THEN writeFile(d3, StudentInfoPath(projectPath),
                       StudentInfoFile(projectName, teamMembers, 0))
        ELSE d3

Asha == [name |-> "Asha", usn |-> "1AB01"]

Teams == {<<>>, <<Asha>>}

\* noon
ClockStart == 12 * 3600 * 1000

\* how far one tick moves the clock
TickMs == 1000

(***************************************************************************)
(* SpecName: one create-project request, for every project name and time   *)
(***************************************************************************)
\* the longest run of plain characters in a project name
MaxPad == 51

PadLens == {0} \cup {n \in 0..MaxPad : n >= NAME_LIMIT - 2}

NameChars == ForbiddenChars \cup WhitespaceChars \cup {"b", "_"}

NameHeads == {<<>>, <<" ">>, <<"?">>}

NameTails == SeqsUpTo(NameChars, 1) \cup {<<" ", "\t">>, <<":", " ">>, <<"b", "*">>, <<" ", "b">>}

ProjectNames ==
    {h \o [i \in 1..k |-> "a"] \o t : h \in NameHeads, k \in PadLens, t \in NameTails}

CreateBodies ==
    LET Full == [projectName : ProjectNames, savePath : {"D:/base"}, teamMembers : Teams]
    IN  Full
        \cup {Restrict(b, {"projectName", "savePath"}) : b \in Full}
        \cup {Restrict(b, {"savePath", "teamMembers"}) : b \in Full}
        \cup {Restrict(b, {"projectName", "teamMembers"}) : b \in Full}
        \cup {[b EXCEPT !.projectName = <<>>] : b \in Full}

ClockSamples == {45296789, 86399999}

InitName ==
    /\ projects = <<>>
    /\ dbFile = <<>>
    /\ disk = <<>>
    /\ uuidCount = 0
    /\ clock \in ClockSamples
    /\ cr \in {[pc |-> "received", body |-> b, res |-> NoAnswer] : b \in CreateBodies}
    /\ up = IdleUp
    /\ cp = [r \in Req |-> IdleCp]
    /\ mig = IdleMig
    /\ dl = IdleDl

NextName == \E failAt \in 0..5 : CreateProject(failAt)

SpecName == InitName /\ [][NextName]_vars

(***************************************************************************)
(* SpecUpload: upload requests, one after the other, into two project      *)
(* folders that already hold an earlier upload of each kind                *)
(***************************************************************************)
\* the longest uploaded file name
MaxNameLen == 3

\* how many uploads are served
MaxUploads == 1

UploadNames == SeqsUpTo({"a", "."}, MaxNameLen)

UploadFiles ==
    {[originalname |-> n, data |-> c.data, size |-> c.size] :
        n \in UploadNames,
        c \in {[data |-> "bytes-1", size |-> 10], [data |-> "bytes-2", size |-> 20]}}

UploadBodies == {[projectPath |-> "P1"], [projectPath |-> "P2"], [projectPath |-> ""],
                 [other |-> "x"]}

UploadRequests ==
    [body : UploadBodies, file : UploadFiles] \cup [body : UploadBodies]

UploadKinds == {"readme", "installation", "source"}

\* a folder after an earlier round of uploads
WithOldUploads(d, projectPath) ==
    LET old == File("bytes-0", 1)
        d1  == writeFile(d, Join(projectPath, <<"1.INSTALLATION", "installation.a">>), old)
        d2  == writeFile(d1, Join(projectPath, <<"2.README", "ReadMe.txt">>), old)
    IN  writeFile(d2, Join(projectPath, <<"3.SOURCE", "project.zip">>), old)

InitUpload ==
    /\ projects = <<>>
    /\ dbFile = <<>>
    /\ disk = NewFolder(WithOldUploads(NewFolder(<<>>, "P1", "Alpha", <<Asha>>), "P1"),
                        "P2", "Beta", <<>>)
    /\ uuidCount = 0
    /\ clock = ClockStart
    /\ cr = IdleCr
    /\ up = IdleUp
    /\ cp = [r \in Req |-> IdleCp]
    /\ mig = IdleMig
    /\ dl = IdleDl

NextUpload ==
    \/ \E kind \in UploadKinds, req \in UploadRequests :
          /\ up.count < MaxUploads
          /\ UploadReceive(kind, req)
    \/ \E ok \in BOOLEAN : UploadMove(ok)

SpecUpload == InitUpload /\ [][NextUpload]_vars

(***************************************************************************)
(* Spec: completion requests, one at a time, downloads and the passing of  *)
(* time, on an empty Record Store.  An answered request leaves its slot    *)
(* before the next arrives.                                                *)
(***************************************************************************)
\* how many completion requests get as far as uuidv4()
MaxCompletes == 2

\* how many times the clock moves
MaxTicks == 1

\* a team member as the client sends it: the record keeps name and usn only
Member == [name |-> "Asha", usn |-> "1AB01", role |-> "lead"]

\* the file metadata a client sends: what the uploads answered, or its own
FileInputs ==
    {[readmeFile |-> [name |-> "ReadMe.md", size |-> 10],
      installationFile |-> [name |-> "installation.pdf", size |-> 20],
      sourceFile |-> [name |-> "project.zip", size |-> 5]],
     [readmeFile |-> [name |-> "", size |-> 0],
      installationFile |-> [name |-> "", size |-> 0],
      sourceFile |-> [name |-> "src.zip", size |-> 7]]}

FullBodies ==
    {[projectName |-> n,
      teamMembers |-> IF n = "Alpha" THEN <<Member>> ELSE <<>>,
      projectPath |-> p,
      folderName |-> "folder-" \o p,
      readmeFile |-> f.readmeFile, installationFile |-> f.installationFile,
      sourceFile |-> f.sourceFile] :
        n \in {"Alpha", "Beta"}, p \in {"P1", "P2"}, f \in FileInputs}

\* a complete body, one with an empty name or path, one with a field missing
CompleteBodies ==
    LET b == CHOOSE x \in FullBodies : x.projectName = "Alpha" /\ x.projectPath = "P1"
    IN  FullBodies
        \cup {[b EXCEPT !.projectName = ""], [b EXCEPT !.projectPath = ""]}
        \cup {Restrict(b, DOMAIN b \ {f}) : f \in DOMAIN b \ {"folderName"}}

Tick ==
    /\ clock < ClockStart + MaxTicks * TickMs
    /\ clock' = clock + TickMs
    /\ UNCHANGED <<projects, dbFile, disk, uuidCount, cr, up, cp, mig, dl>>

\* the answer has been sent: the slot is free again
CompleteEnd(r) ==
    /\ cp[r].pc = "done"
    /\ cp' = [cp EXCEPT ![r] = IdleCp]
    /\ UNCHANGED <<projects, dbFile, disk, uuidCount, clock, cr, up, mig, dl>>

DownloadEnd ==
    /\ dl # IdleDl
    /\ dl' = IdleDl
    /\ UNCHANGED <<projects, dbFile, disk, uuidCount, clock, cr, up, cp, mig>>

\* no request is being served, no answer is still in its slot
Quiet == dl = IdleDl /\ \A r \in Req : cp[r].pc = "idle"

FirstSlot == CHOOSE r \in Req : \A q \in Req : r <= q

\* P1 was created with its team (student-info.txt is there) or without;
\* P2's folder exists or is gone
Init ==
    /\ projects = <<>>
    /\ dbFile = <<>>
    /\ \E t \in Teams, p2 \in BOOLEAN :
          disk = IF p2 THEN NewFolder(NewFolder(<<>>, "P1", "Alpha", t), "P2", "Beta", <<>>)
                 ELSE NewFolder(<<>>, "P1", "Alpha", t)
    /\ uuidCount = 0
    /\ clock = ClockStart
    /\ cr = IdleCr
    /\ up = IdleUp
    /\ cp = [r \in Req |-> IdleCp]
    /\ mig = IdleMig
    /\ dl = IdleDl

Next ==
    \/ \E body \in CompleteBodies :
          /\ Quiet
          /\ uuidCount < MaxCompletes
          /\ CompleteStart(FirstSlot, body)
    \/ \E r \in Req : CompleteStat(r)
    \/ \E r \in Req : CompleteWrite(r)
    \/ \E r \in Req : CompleteJson(r)
    \/ \E r \in Req : CompleteEnd(r)
    \/ \E urlId \in {Uuid(n) : n \in 1..MaxCompletes} \cup {"no-such-id"} :
          /\ Quiet
          /\ DownloadProject(urlId)
    \/ DownloadEnd
    \/ Quiet /\ Tick

Spec == Init /\ [][Next]_vars

(***************************************************************************)
(* SpecMig: migration requests, one after the other, on a store of records *)
(* of the old layout.  P1's folder is in one of the layouts; P2's folder   *)
(* is missing, or of the old layout and locked or not.                     *)
(***************************************************************************)
\* how many records the store holds
MaxRecords == 2

\* how many migration requests are served
MaxRuns == 2

\* a record as an earlier version stored it: files of the old layout, and a
\* teamMembers entry when there is a team
LegacyRecord(n, projectPath, teamMembers) ==
    LET files == [readme |-> [name |-> "ReadMe.txt",
                              path |-> Join(projectPath, <<"README", "ReadMe.txt">>),
                              size |-> 10],
                  installation |-> [name |-> "installation.txt",
                                    path |-> Join(projectPath,
                                                  <<"INSTALLATION", "installation.txt">>),
                                    size |-> 20],
                  source |-> [name |-> "project.zip",
                              path |-> Join(projectPath, <<"SOURCE", "project.zip">>),
                              size |-> 5]]
    IN  [id |-> Uuid(n),
         projectName |-> "Name-" \o projectPath,
         timestamp |-> NowIso(0),
         teamMembers |-> teamMembers,
         folderName |-> "folder-" \o projectPath,
         projectPath |-> projectPath,
         files |-> IF Len(teamMembers) > 0
                   THEN ("teamMembers" :>
                            [name |-> "team-members.txt",
                             path |-> Join(projectPath, <<"team-members.txt">>),
                             size |-> 30]) @@ files
                   ELSE files]

RecordChoices == {<<"P1", <<Asha>>>>, <<"P1", <<>>>>, <<"P2", <<Asha>>>>}

LegacyStores ==
    {[n \in 1..MaxRecords |-> LegacyRecord(n, c[n][1], c[n][2])] :
        c \in [1..MaxRecords -> RecordChoices]}

\* which of the old and the numbered folders exist: README, and the other two
DirLayouts == {<<"old", "old">>, <<"both", "new">>, <<"new", "new">>}

SidecarSets == {{}, {"student-info.txt"}, {"team-members.txt", "4.Student-info.txt"},
                {"student-info.txt", "team-members.txt"}}

DirsOf(projectPath, old, which) ==
    CASE which = "old"  -> {Join(projectPath, <<old>>)}
      [] which = "new"  -> {Join(projectPath, <<Numbered(old)>>)}
      [] which = "both" -> {Join(projectPath, <<old>>), Join(projectPath, <<Numbered(old)>>)}

\* a project folder in the given layout, with a file in each README folder
Folder(projectPath, dirs, sidecars, root) ==
    LET ds == DirsOf(projectPath, "README", dirs[1])
              \cup DirsOf(projectPath, "INSTALLATION", dirs[2])
              \cup DirsOf(projectPath, "SOURCE", dirs[2])
        readmes == {x \o <<"ReadMe.txt">> : x \in DirsOf(projectPath, "README", dirs[1])}
        files   == {Join(projectPath, <<f>>) : f \in sidecars} \cup readmes
    IN  [x \in {<<projectPath>>} \cup ds \cup files |->
            IF x = <<projectPath>> THEN root
            ELSE IF x \in ds THEN Dir
            ELSE File("text", 10)]

MigDisks ==
    LET P1s == {<<>>} \cup {Folder("P1", d, f, Dir) : d \in DirLayouts, f \in SidecarSets}
        P2s == {<<>>, Folder("P2", <<"old", "old">>, {"team-members.txt"}, Dir),
                Folder("P2", <<"old", "old">>, {"team-members.txt"}, Locked)}
    IN  {a @@ b : a \in P1s, b \in P2s}

InitMig ==
    /\ projects \in LegacyStores
    /\ dbFile = projects
    /\ disk \in MigDisks
    /\ uuidCount = MaxRecords
    /\ clock = ClockStart
    /\ cr = IdleCr
    /\ up = IdleUp
    /\ cp = [r \in Req |-> IdleCp]
    /\ mig = IdleMig
    /\ dl = IdleDl

NextMig ==
    \/ mig.run < MaxRuns /\ MigStart
    \/ MigHead
    \/ \E old \in {"README", "INSTALLATION", "SOURCE"} : MigMoveDir(old)
    \/ MigInfo
    \/ \E name \in {"team-members.txt", "4.Student-info.txt"} : MigRemove(name)
    \/ \E storeOk \in BOOLEAN : MigUpdate(storeOk)

SpecMig == InitMig /\ [][NextMig]_vars

(***************************************************************************)
(* SpecConc: two completion requests in flight together.  The second       *)
(* arrives while the first is at one of its awaits; the steps of the two   *)
(* interleave in every order.  The store is empty, or holds what an        *)
(* earlier completion of Alpha in P1 left.                                 *)
(***************************************************************************)
\* the request served before the two arrive
EarlierBody ==
    CHOOSE b \in FullBodies :
        /\ b.projectName = "Alpha"
        /\ b.projectPath = "P1"
        /\ b.readmeFile.name = "ReadMe.md"

EarlierStore == AfterStoreWrites(<<>>, NewProjectData(EarlierBody, Uuid(1), 0))

InFlight(r) == cp[r].pc \in {"stat", "write", "json"}

InitConc ==
    /\ \E earlier \in BOOLEAN :
          /\ projects = IF earlier THEN EarlierStore ELSE <<>>
          /\ uuidCount = IF earlier THEN 1 ELSE 0
    /\ dbFile = projects
    /\ \E t \in Teams, p2 \in BOOLEAN :
          disk = IF p2 THEN NewFolder(NewFolder(<<>>, "P1", "Alpha", t), "P2", "Beta", <<>>)
                 ELSE NewFolder(<<>>, "P1", "Alpha", t)
    /\ clock = ClockStart
    /\ cr = IdleCr
    /\ up = IdleUp
    /\ cp = [r \in Req |-> IdleCp]
    /\ mig = IdleMig
    /\ dl = IdleDl

NextConc ==
    \/ \E body \in FullBodies :
          /\ \A r \in Req : cp[r].pc = "idle"
          /\ CompleteStart(FirstSlot, body)
    \/ \E body \in FullBodies, r \in Req \ {FirstSlot} :
          /\ cp[r].pc = "idle"
          /\ InFlight(FirstSlot)
          /\ CompleteStart(r, body)
    \/ \E r \in Req : CompleteStat(r)
    \/ \E r \in Req : CompleteWrite(r)
    \/ \E r \in Req : CompleteJson(r)
    \/ Tick

SpecConc == InitConc /\ [][NextConc]_vars

(***************************************************************************)
(* SpecRace: one migration request, and one completion request that        *)
(* arrives while the migration is at one of its awaits or between two      *)
(* records.  The completion is for P1, whose record the store holds.       *)
(***************************************************************************)
RaceStores ==
    LET A == LegacyRecord(1, "P1", <<Asha>>)
        B == LegacyRecord(2, "P2", <<Asha>>)
    IN  {<<A>>, <<A, B>>,
         <<[B EXCEPT !.id = Uuid(1)], [A EXCEPT !.id = Uuid(2)]>>}

RaceBodies ==
    {[projectName |-> "Name-P1",
      teamMembers |-> <<Member>>,
      projectPath |-> "P1",
      folderName |-> "folder-P1",
      readmeFile |-> f.readmeFile, installationFile |-> f.installationFile,
      sourceFile |-> f.sourceFile] : f \in FileInputs}

MigInProgress == mig.pc \notin {"idle", "done"}

InitRace ==
    /\ projects \in RaceStores
    /\ dbFile = projects
    /\ disk \in MigDisks
    /\ uuidCount = Len(projects)
    /\ clock = ClockStart
    /\ cr = IdleCr
    /\ up = IdleUp
    /\ cp = [r \in Req |-> IdleCp]
    /\ mig = IdleMig
    /\ dl = IdleDl

NextRace ==
    \/ mig.pc = "idle" /\ MigStart
    \/ MigHead
    \/ \E old \in {"README", "INSTALLATION", "SOURCE"} : MigMoveDir(old)
    \/ MigInfo
    \/ \E name \in {"team-members.txt", "4.Student-info.txt"} : MigRemove(name)
    \/ \E storeOk \in BOOLEAN : MigUpdate(storeOk)
    \/ \E body \in RaceBodies :
          /\ MigInProgress
          /\ cp[FirstSlot].pc = "idle"
          /\ CompleteStart(FirstSlot, body)
    \/ CompleteStat(FirstSlot)
    \/ CompleteWrite(FirstSlot)
    \/ CompleteJson(FirstSlot)

SpecRace == InitRace /\ [][NextRace]_vars

(***************************************************************************)
(* Claims                                                                  *)
(***************************************************************************)
\* the records of the collection ps that belong to a project
RecordsOf(ps, projectName, projectPath) ==
    {i \in 1..Len(ps) : ps[i].projectName = projectName /\ ps[i].projectPath = projectPath}

\* C1: the Record Store holds one record for each (projectName, projectPath) that
\* was completed: every completion answered with success has exactly one record,
\* and no project has two.
C1_OneRecordPerProject ==
    /\ \A i \in 1..Len(projects) :
          Cardinality(RecordsOf(projects, projects[i].projectName,
                                projects[i].projectPath)) = 1
    /\ \A r \in Req :
          (cp[r].pc = "done" /\ cp[r].res.status = 200) =>
              Cardinality(RecordsOf(projects, cp[r].body.projectName,
                                    cp[r].body.projectPath)) = 1

\* a completion answered with success that found an existing record
AnsweredUpdate(r) ==
    /\ cp[r].pc = "done"
    /\ cp[r].res.status = 200
    /\ cp[r].branch = "update"

\* the record answered has the id and timestamp of the record found, the record
\* the store answers for that id is the one answered, and every record the store
\* holds for the project has that id and timestamp
KeepsIdentity(r) ==
    LET returned == cp[r].res.projectData
        stored   == projects[IndexById(projects, returned.id)]
    IN  /\ returned.id = cp[r].existingProject.id
        /\ returned.timestamp = cp[r].existingProject.timestamp
        /\ stored.id = returned.id
        /\ stored.timestamp = returned.timestamp
        /\ \A k \in {"readme", "installation", "source"} :
              stored.files[k] = returned.files[k]
        /\ \A i \in RecordsOf(projects, returned.projectName, returned.projectPath) :
              /\ projects[i].id = returned.id
              /\ projects[i].timestamp = returned.timestamp

\* C2 as stated: on a completion of a project that has a record, the record
\* answered and stored keeps the existing id and timestamp, and the name and size
\* of files.readme, files.installation and files.source are those of the
\* readmeFile, installationFile and sourceFile of this call (a missing name
\* giving the default name).
C2_Original ==
    \A r \in Req : AnsweredUpdate(r) =>
        LET files == cp[r].res.projectData.files
            body  == cp[r].body
        IN  /\ KeepsIdentity(r)
            /\ files.readme.name = OrStr(body.readmeFile.name, "ReadMe.txt")
            /\ files.readme.size = body.readmeFile.size
            /\ files.installation.name = OrStr(body.installationFile.name, "installation.txt")
            /\ files.installation.size = body.installationFile.size
            /\ files.source.name = OrStr(body.sourceFile.name, "project.zip")
            /\ files.source.size = body.sourceFile.size

\* C2, amended: as C2_Original, but files.source.name is project.zip whatever
\* sourceFile.name says; only the size of files.source is the call's.
C2_UpdateKeepsIdAndTimestamp ==
    \A r \in Req : AnsweredUpdate(r) =>
        LET files == cp[r].res.projectData.files
            body  == cp[r].body
        IN  /\ KeepsIdentity(r)
            /\ files.readme.name = OrStr(body.readmeFile.name, "ReadMe.txt")
            /\ files.readme.size = body.readmeFile.size
            /\ files.installation.name = OrStr(body.installationFile.name, "installation.txt")
            /\ files.installation.size = body.installationFile.size
            /\ files.source.name = "project.zip"
            /\ files.source.size = body.sourceFile.size

\* C2's case: a second completion, at a later time and with other file metadata
\* than the first, has been answered
C2_Witness ==
    \E r \in Req :
        /\ AnsweredUpdate(r)
        /\ cp[r].res.projectData.id # Uuid(uuidCount)
        /\ cp[r].res.projectData.timestamp # NowIso(clock)
        /\ cp[r].res.projectData.files.readme # cp[r].existingProject.files.readme

\* C3: a download of a record that is in the store, with its folder on disk, is
\* answered with the ZIP named <folderName>.zip of the record of the identifier in
\* the URL; 404 is answered only when the record or its folder is missing.
C3_DownloadFindsRecord ==
    dl # IdleDl =>
        LET i == IndexById(projects, dl.params.projectId)
        IN  IF i # 0 /\ existsSync(disk, <<projects[i].projectPath>>)
            THEN /\ dl.res.status = 200
                 /\ dl.res.attachment = projects[i].folderName \o ".zip"
                 /\ dl.res.id = dl.params.projectId
            ELSE dl.res.status = 404

\* C7: a completion request without projectName, teamMembers or projectPath is
\* answered 400 with success:false as it arrives; the Record Store, its file and
\* the disk (student-info.txt, project-info.json) are as they were.
C7_IncompleteRequestChangesNothing ==
    [][\A r \in Req :
          (/\ cp[r].pc = "idle"
           /\ cp'[r] # cp[r]
           /\ (\/ ~Has(cp'[r].body, "projectName")
               \/ ~Has(cp'[r].body, "teamMembers")
               \/ ~Has(cp'[r].body, "projectPath")))
          => (/\ cp'[r].pc = "done"
              /\ cp'[r].res.status = 400
              /\ cp'[r].res.success = FALSE
              /\ projects' = projects
              /\ dbFile' = dbFile
              /\ disk' = disk)]_vars

\* C7's case: a request without teamMembers has been answered 400 while the store
\* already held a record
C7_Witness ==
    \E r \in Req :
        /\ cp[r].pc = "done"
        /\ ~Has(cp[r].body, "teamMembers")
        /\ cp[r].res.status = 400
        /\ Len(projects) > 0

\* C8: after a completion answered with success, project-info.json, the record
\* answered and the record of projects.json for that project are one and the same
\* record, files.studentInfo included.
C8_SidecarAnswerAndStoreAgree ==
    \A r \in Req :
        (cp[r].pc = "done" /\ cp[r].res.status = 200) =>
            LET returned == cp[r].res.projectData
                infoPath == InfoPath(cp[r].body.projectPath)
                i        == IndexById(dbFile, returned.id)
            IN  /\ existsSync(disk, infoPath)
                /\ disk[infoPath].data = returned
                /\ "studentInfo" \in DOMAIN returned.files
                /\ i # 0
                /\ dbFile[i] = returned

\* C4: the folder name create-project answers with, made by generateFolderName,
\* holds none of < > : " / \ | ? * and no whitespace, and what precedes the
\* appended _<timestamp> is at most 50 characters long.
C4_FolderNameIsClean ==
    (cr.pc = "done" /\ cr.res.status = 200) =>
        LET folderName == cr.res.folderName
            namePart   == SubSeq(folderName, 1, Len(folderName) - (STAMP_LEN + 1))
        IN  /\ \A i \in 1..Len(folderName) :
                  folderName[i] \notin ForbiddenChars \cup WhitespaceChars
            /\ Len(namePart) <= NAME_LIMIT
            /\ folderName[Len(namePart) + 1] = "_"
            /\ existsSync(disk, <<cr.res.projectPath>>)

\* C4's case: a name longer than the limit, with forbidden characters and
\* whitespace in it, has been given a folder
C4_Witness ==
    /\ cr.pc = "done"
    /\ cr.res.status = 200
    /\ Len(cr.body.projectName) > NAME_LIMIT
    /\ \E i \in 1..NAME_LIMIT : cr.body.projectName[i] \in ForbiddenChars
    /\ \E i \in 1..Len(cr.body.projectName) : cr.body.projectName[i] \in WhitespaceChars

\* the extension of a file name as Node documents path.extname: from the last
\* '.' on; none when the name has no '.', starts with its last '.', or is '..'
OriginalExt(cs) ==
    LET dots == {i \in 1..Len(cs) : cs[i] = "."}
        last == CHOOSE i \in dots : \A j \in dots : j <= i
    IN  IF dots = {} \/ last = 1 \/ cs = <<".", ".">> THEN <<>>
        ELSE SubSeq(cs, last, Len(cs))

\* C5: a successful upload has put the uploaded bytes at
\* <projectPath>/1.INSTALLATION/installation<ext>, 2.README/ReadMe<ext> (ReadMe.txt
\* without an extension) or 3.SOURCE/project.zip, whatever the file was called and
\* whatever was there before, and answers with that path and its last component.
C5_UploadLandsAtFixedTarget ==
    (up.pc = "done" /\ up.res.status = 200) =>
        LET ext    == Str(OriginalExt(up.file.originalname))
            name   == CASE up.kind = "installation" -> "installation" \o ext
                        [] up.kind = "readme" ->
                              IF ext = "" THEN "ReadMe.txt" ELSE "ReadMe" \o ext
                        [] up.kind = "source" -> "project.zip"
            folder == CASE up.kind = "installation" -> "1.INSTALLATION"
                        [] up.kind = "readme" -> "2.README"
                        [] up.kind = "source" -> "3.SOURCE"
            target == <<up.body.projectPath, folder, name>>
        IN  /\ up.res.success
            /\ up.res.path = target
            /\ existsSync(disk, target)
            /\ disk[target] = File(up.file.data, up.file.size)
            /\ up.res.fileName = Basename(up.res.path)
            /\ up.res.fileSize = up.file.size

\* C5's case: install.a-like upload has replaced the installation.a of an earlier upload
C5_Witness ==
    /\ up.pc = "done"
    /\ up.res.status = 200
    /\ up.kind = "installation"
    /\ up.file.originalname = <<"a", ".", "a">>
    /\ up.body.projectPath = "P1"
    /\ disk[<<"P1", "1.INSTALLATION", "installation.a">>].data = "bytes-2"

\* what the project folders hold: everything outside the server's uploads directory
ProjectFiles(d) == Restrict(d, {x \in DOMAIN d : ~IsPrefix(<<TempDir[1]>>, x)})

\* C6: an upload request without a file, or without a projectPath, is answered 400
\* with success:false as it arrives, and the project folders are as they were.
C6_RejectedUploadTouchesNothing ==
    [][(/\ up.pc \in {"idle", "done"}
        /\ up' # up
        /\ (~up'.hasFile \/ ~Truthy(up'.body, "projectPath")))
       => (/\ up'.pc = "done"
           /\ up'.res.status = 400
           /\ up'.res.success = FALSE
           /\ ProjectFiles(disk') = ProjectFiles(disk))]_vars

\* C6's case: a file has arrived without a projectPath and was answered 400
C6_Witness ==
    /\ up.pc = "done"
    /\ up.hasFile
    /\ ~Has(up.body, "projectPath")
    /\ up.res.status = 400

(***************************************************************************)
(* Claims checked under SpecMig.                                           *)
(***************************************************************************)
MigDone == mig.pc = "done"

\* every record of the collection had its turn in the loop
AllVisited == mig.visited = 1..Len(mig.list)

\* C9 as stated: a migration request answers success, having taken every
\* record in turn whatever failed before it, and its updatedCount is the
\* number of updateProject calls it made.
C9_Original ==
    MigDone => /\ mig.res.status = 200
               /\ mig.res.success
               /\ AllVisited
               /\ mig.res.updatedCount = mig.calls

\* C9, amended: a migration request answers success, having taken every
\* record in turn whatever failed before it, and its updatedCount is the
\* number of updateProject calls that returned; a call that threw is not
\* counted.
C9_CountsReturnedUpdates ==
    MigDone => /\ mig.res.status = 200
               /\ mig.res.success
               /\ AllVisited
               /\ mig.res.updatedCount = mig.returned

\* a request that caught an error on its first record and updated a later one
C9_Witness ==
    /\ MigDone
    /\ mig.errors > 0
    /\ Len(mig.list) > 1
    /\ mig.returned > 0
    /\ mig.list[1].projectPath = "P2"
    /\ existsSync(disk, <<"P2">>)
    /\ disk[<<"P2">>] = Locked

\* C10: a migration request that follows one in which no error was caught
\* answers updatedCount 0 and leaves the disk and the store as it found them.
C10_SecondRunChangesNothing ==
    (MigDone /\ mig.run >= 2 /\ mig.prevErrors = 0) =>
        /\ mig.res.updatedCount = 0
        /\ disk = mig.disk0
        /\ projects = mig.projects0
        /\ dbFile = mig.dbFile0

\* the second request is done, and the first, without an error, had moved
\* P1's folders and written its student-info.txt into the store's record
C10_Witness ==
    /\ MigDone
    /\ mig.run = 2
    /\ mig.prevErrors = 0
    /\ existsSync(disk, <<"P1", "2.README">>)
    /\ ~existsSync(disk, <<"P1", "README">>)
    /\ \E k \in 1..Len(projects) : Has(projects[k].files, "studentInfo")

\* the deprecated files of a project folder
Deprecated(projectPath) ==
    {Join(projectPath, <<"team-members.txt">>), Join(projectPath, <<"4.Student-info.txt">>)}

\* C11: after a migration request that caught no error, no folder on disk of a
\* stored record holds team-members.txt or 4.Student-info.txt, whether
\* student-info.txt was there before the request or not.
C11_NoDeprecatedFilesLeft ==
    (MigDone /\ mig.errors = 0) =>
        \A k \in 1..Len(projects) :
            existsSync(disk, <<projects[k].projectPath>>) =>
                \A p \in Deprecated(projects[k].projectPath) : ~existsSync(disk, p)

(***************************************************************************)
(* Claims checked under SpecUpload: the staged file.                       *)
(***************************************************************************)
\* C12: once an upload request that carried a file is answered, with 200, with
\* 400 for a missing projectPath or with 500 for a failed relocation, the file
\* staged for it is no longer in the temporary directory.
C12_StagedFileGoneOnEveryExit ==
    (up.pc = "done" /\ up.hasFile) => ~existsSync(disk, up.file.path)

(***************************************************************************)
(* Claims checked under SpecConc.                                          *)
(***************************************************************************)
Succeeded(r) == cp[r].pc = "done" /\ cp[r].res.status = 200

SameProject(r, q) ==
    /\ cp[r].body.projectName = cp[q].body.projectName
    /\ cp[r].body.projectPath = cp[q].body.projectPath

\* the collection ps holds, under the id answered to request r, the record that
\* request wrote: its project, team, folder and file metadata
HoldsRecordOf(ps, r) ==
    LET returned == cp[r].res.projectData
        k        == IndexById(ps, returned.id)
    IN  /\ k # 0
        /\ \A f \in DOMAIN returned \ {"files"} : ps[k][f] = returned[f]
        /\ ps[k].projectName = cp[r].body.projectName
        /\ ps[k].projectPath = cp[r].body.projectPath
        /\ \A f \in {"readme", "installation", "source"} :
              ps[k].files[f] = FilesOf(cp[r].body)[f]

\* C13: of two completion requests in flight together, for different projects
\* and both answered with success, the store and its file hold the record of
\* each as that request wrote it; and two requests in flight together for the
\* same project, new to the store, never both take the insert branch.
C13_ConcurrentCompletionsKeepBoth ==
    \A r \in Req : \A q \in Req \ {r} :
        /\ (Succeeded(r) /\ Succeeded(q) /\ ~SameProject(r, q)) =>
              /\ HoldsRecordOf(projects, r)
              /\ HoldsRecordOf(dbFile, r)
        /\ (cp[r].pc # "idle" /\ cp[q].pc # "idle"
            /\ cp[r].branch = "create" /\ cp[q].branch = "create") =>
              ~SameProject(r, q)

\* both requests, in flight together, are answered with success, for different
\* projects neither of which had a record
C13_Witness ==
    \E r \in Req : \E q \in Req \ {r} :
        /\ Succeeded(r) /\ Succeeded(q)
        /\ ~SameProject(r, q)
        /\ cp[r].branch = "create" /\ cp[q].branch = "create"
        /\ cp[q].res.projectData.id = Uuid(uuidCount)

(***************************************************************************)
(* Claims checked under SpecRace.                                          *)
(***************************************************************************)
\* C14: a completion that ran while a migration was in progress is not
\* reverted: once both are answered, the record the store answers for the
\* completion's id has the files.readme, files.installation and files.source
\* the completion wrote.
C14_MigrationKeepsCompletion ==
    \A r \in Req :
        (MigDone /\ Succeeded(r)) =>
            LET returned == cp[r].res.projectData
                k        == IndexById(projects, returned.id)
            IN  /\ k # 0
                /\ \A f \in {"readme", "installation", "source"} :
                      projects[k].files[f] = returned.files[f]

====
